---- MODULE Spec2Model ----
(***************************************************************************)
(* Model of the Teleport event handler (event-handler/app.go): the main    *)
(* audit-log poller, the session dispatch loop with its semaphore, the     *)
(* session replay tasks with their backoff retries, and the persisted      *)
(* state (id, cursor, start time, session indexes).                        *)
(***************************************************************************)
EXTENDS Integers, FiniteSets, Sequences, TLC

(* ------------------------------ bounds --------------------------------- *)

\* Number of events in the main audit log.
MaxMain == 3

\* Number of events in the main audit log of SpecBusy (not less than MaxMain).
MaxMainBusy == 5

\* Number of events in every session sub-stream (indexes 0 .. SessLen-1).
SessLen == 2

\* config.Concurrency: capacity of the semaphore channel.
Concurrency == 1

\* Number of process crashes followed by a restart (SpecCrash only).
MaxCrash == 1

(* ------------------------- program constants --------------------------- *)

\* sessionBackoffNumTries
sessionBackoffNumTries == 5

\* config.DryRun: sendEvent skips fluentd.Send when it is set.
DryRun == FALSE

(* ------------------------------ values --------------------------------- *)

\* A nil *time.Time.
NoTime == "none"

\* Explicit start times of the command line, and the value time.Now() gives.
T1 == "T1"
T2 == "T2"
TimeNow == "now"

\* Error values, by the classes the code tests for.
NilErr == "nil"
ConnErr == "conn"
EOFErr == "eof"
Canceled == "canceled"
OtherErr == "other"
ConflictErr == "conflict"

\* The main audit log: event p has ID p and cursor p; odd events are session
\* end events, of sessions 1, 2, ...
EventID(p) == p
EventCursor(p) == p
IsSessionEnd(p) == p % 2 = 1
EventSessionID(p) == (p + 1) \div 2

MainEvents == 1..MaxMainBusy
SessionIDs == {EventSessionID(p) : p \in {q \in MainEvents : IsSessionEnd(q)}}

\* Session events: event i of a session has Index i; the events of even index
\* are of a type listed in config.SkipSessionTypes.
EventIndex(i) == i
EventType(i) == IF i % 2 = 0 THEN "print" ELSE "exec"
SkipSessionTypes == {"print"}

VARIABLES
    \* State (persisted)
    stID, stCursor, stStartTime, stSessions,
    \* StartCmdConfig
    cfgStartTime,
    \* Teleport: the number of events in the audit log
    logLen,
    \* lib.Process: the shutdown signal
    terminated,
    \* App.run / App.poll
    mainPc, mainEvt, mainErr, streamPos,
    \* goroutines blocked on a.sessions <- s
    subs,
    \* App.runSessionConsumer
    dispPc, dispS, dispErr,
    \* a.semaphore: number of tokens in the channel
    semaphore,
    \* the session replay tasks
    tasks,
    \* what Fluentd received, what was skipped, which sub-streams ended
    sinkMain, sinkSess, skippedSess, exhausted,
    \* history: last main event sendEvent returned nil for in this run,
    \* the sessions map read at startup, how often the dispatch loop received
    \* each restarted session, crashes so far
    lastSent, startupSessions, resumed, crashes

vars == <<stID, stCursor, stStartTime, stSessions, cfgStartTime, logLen, terminated,
          mainPc, mainEvt, mainErr, streamPos, subs, dispPc, dispS, dispErr,
          semaphore, tasks, sinkMain, sinkSess, skippedSess, exhausted,
          lastSent, startupSessions, resumed, crashes>>

persisted == <<stID, stCursor, stStartTime, stSessions>>
mainVars == <<mainPc, mainEvt, mainErr, streamPos>>
dispVars == <<dispPc, dispS, dispErr>>
sinkVars == <<sinkMain, sinkSess, skippedSess>>

(* ------------------------------ State ---------------------------------- *)

\* State.SetSessionIndex: upsert of one key of the sessions map.
SetSessionIndex(m, id, idx) ==
    [k \in DOMAIN m \cup {id} |-> IF k = id THEN idx ELSE m[k]]

\* State.RemoveSession
RemoveSession(m, id) == [k \in DOMAIN m \ {id} |-> m[k]]

\* Sessions whose session end event is within the first c main events.
EndedBy(c) == {EventSessionID(p) : p \in {q \in 1..c : IsSessionEnd(q)}}

\* Session events a stream read up to index i has passed, by what was done
\* with them.
SentUpTo(s, i) == {<<s, j>> : j \in {k \in 0..i : EventType(k) \notin SkipSessionTypes}}
SkippedUpTo(s, i) == {<<s, j>> : j \in {k \in 0..i : EventType(k) \in SkipSessionTypes}}

(* ------------------------------- Init ---------------------------------- *)

\* The process after NewApp, over a store a previous run may have left: the
\* first c main events are delivered and persisted, and each session ended
\* by them either has an entry or was replayed to its end and removed
\* (f[s] = SessLen).
InitStore(c, f) ==
    /\ stID = (IF c = 0 THEN 0 ELSE EventID(c))
    /\ stCursor = (IF c = 0 THEN 0 ELSE EventCursor(c))
    /\ stSessions = [s \in {x \in EndedBy(c) : f[x] < SessLen} |-> f[s]]
    /\ sinkMain = 1..c
    /\ sinkSess = UNION {IF f[s] = 0 THEN {} ELSE SentUpTo(s, f[s] - (IF f[s] = SessLen THEN 1 ELSE 0)) : s \in EndedBy(c)}
    /\ skippedSess = UNION {IF f[s] = 0 THEN {} ELSE SkippedUpTo(s, f[s] - (IF f[s] = SessLen THEN 1 ELSE 0)) : s \in EndedBy(c)}
    /\ exhausted = {s \in EndedBy(c) : f[s] = SessLen}

InitMemory ==
    /\ terminated = FALSE
    /\ mainPc = "init"
    /\ mainEvt = 0
    /\ mainErr = NilErr
    /\ streamPos = 0
    /\ subs = {}
    /\ dispPc = "select"
    /\ dispS = <<>>
    /\ dispErr = NilErr
    /\ semaphore = 0
    /\ tasks = {}
    /\ lastSent = 0
    /\ startupSessions = <<>>
    /\ resumed = [s \in SessionIDs |-> 0]

Init ==
    /\ \E c \in 0..MaxMain : \E f \in [EndedBy(c) -> 0..SessLen] : InitStore(c, f)
    /\ stStartTime \in {NoTime, T1}
    /\ cfgStartTime \in {NoTime, T1, T2}
    /\ logLen = MaxMain
    /\ InitMemory
    /\ crashes = 0

\* A first start over an empty storage directory.
InitFresh ==
    /\ InitStore(0, <<>>)
    /\ stStartTime = NoTime
    /\ cfgStartTime \in {NoTime, T1}
    /\ logLen = MaxMain
    /\ InitMemory
    /\ crashes = 0

\* A start over the store of a run that was stopped with one main event of
\* the log still to come and every session ended so far paused at index 1.
InitBusy ==
    /\ InitStore(MaxMainBusy - 1, [s \in EndedBy(MaxMainBusy - 1) |-> 1])
    /\ stStartTime = T1
    /\ cfgStartTime = NoTime
    /\ logLen = MaxMainBusy
    /\ InitMemory
    /\ crashes = 0

\* A start over the store of a run that was stopped with one main event of
\* the log still to come, a session end event, and the session ended before
\* paused at index 1.
InitLive ==
    /\ InitStore(MaxMain - 1, [s \in EndedBy(MaxMain - 1) |-> 1])
    /\ stStartTime = T1
    /\ cfgStartTime = NoTime
    /\ logLen = MaxMain
    /\ InitMemory
    /\ crashes = 0

(* --------------------------- lib.Process ------------------------------- *)

\* SpawnCritical: a critical job that returns an error stops the process.
CriticalExit(err) == terminated \/ err # NilErr

\* The shutdown signal (Process.Terminate called from outside the app).
Shutdown ==
    /\ ~terminated
    /\ mainPc # "init"
    /\ terminated' = TRUE
    /\ UNCHANGED <<persisted, cfgStartTime, logLen, mainVars, subs, dispVars, semaphore,
                   tasks, sinkVars, exhausted, lastSent, startupSessions, resumed, crashes>>

(* ------------------------------ App.run -------------------------------- *)

\* Mutant of StartTimeConflict: the comparison of the two times is inverted.
StartTimeConflictInverted(prev, cfg) == prev # NoTime /\ cfg # NoTime /\ prev = cfg

\* setStartTime: whether the explicit start time conflicts with the saved one.
StartTimeConflict(prev, cfg) == prev # NoTime /\ cfg # NoTime /\ prev # cfg

\* setStartTime: the start time in the state after the call.
StartTimeAfter(prev, cfg) ==
    IF prev = NoTime THEN (IF cfg = NoTime THEN TimeNow ELSE cfg) ELSE prev

\* Mutant of RestartSubmission: the saved index is dropped and the session
\* restarts at index 0.
RestartSubmissionFromZero(id, idx) == [sid |-> id, idx |-> 0, from |-> 0, pc |-> "send"]

\* restartPausedSessions: the goroutine spawned for one saved session, about
\* to send session{ID: id, Index: idx} to a.sessions.
RestartSubmission(id, idx) == [sid |-> id, idx |-> idx, from |-> 0, pc |-> "send"]

\* run, up to the poll loop: init (setStartTime), restartPausedSessions.
RunInit ==
    /\ mainPc = "init"
    /\ IF StartTimeConflict(stStartTime, cfgStartTime)
       THEN /\ mainPc' = "done"
            /\ mainErr' = ConflictErr
            /\ terminated' = CriticalExit(ConflictErr)
            /\ UNCHANGED <<stStartTime, subs, startupSessions>>
       ELSE /\ stStartTime' = StartTimeAfter(stStartTime, cfgStartTime)
            /\ subs' = subs \cup {RestartSubmission(id, stSessions[id]) : id \in DOMAIN stSessions}
            /\ startupSessions' = stSessions
            /\ mainPc' = "poll"
            /\ UNCHANGED <<mainErr, terminated>>
    /\ UNCHANGED <<stID, stCursor, stSessions, cfgStartTime, logLen, mainEvt, streamPos,
                   dispVars, semaphore, tasks, sinkVars, exhausted, lastSent, resumed, crashes>>

\* Mutant of RunNextPc: a closed stream (EOF) is not reopened.
RunNextPcEOFStops(err) == IF err = ConnErr THEN "poll" ELSE "done"

\* run's switch on the error poll returned: the pc run continues at.
RunNextPc(err) == IF err \in {ConnErr, EOFErr} THEN "poll" ELSE "done"

\* run's switch: the error run returns (Canceled and nil give nil).
RunResult(err) == IF err \in {ConnErr, EOFErr, Canceled} THEN NilErr ELSE err

\* run's switch: whether a.Terminate() is called.
RunTerminates(err) == err \notin {ConnErr, EOFErr}

\* poll returns err to run.
PollReturn(err) ==
    /\ mainPc' = RunNextPc(err)
    /\ mainErr' = RunResult(err)
    /\ terminated' = (terminated \/ RunTerminates(err) \/ RunResult(err) # NilErr)
    /\ mainEvt' = 0

\* TeleportEventsWatcher.Events: the position the stream it returns resumes
\* after, the saved cursor.
EventsStart == stCursor

\* poll calls a.teleport.Events and enters its loop.
PollOpen ==
    /\ mainPc = "poll"
    /\ streamPos' = EventsStart
    /\ mainPc' = "select"
    /\ UNCHANGED <<persisted, cfgStartTime, logLen, terminated, mainEvt, mainErr, subs, dispVars,
                   semaphore, tasks, sinkVars, exhausted, lastSent, startupSessions, resumed, crashes>>

\* poll's select, case evt := <-chEvt with an event.
PollRecvEvent ==
    /\ mainPc = "select"
    /\ streamPos < logLen
    /\ streamPos' = streamPos + 1
    /\ mainEvt' = streamPos + 1
    /\ mainPc' = "send"
    /\ UNCHANGED <<persisted, cfgStartTime, logLen, terminated, mainErr, subs, dispVars,
                   semaphore, tasks, sinkVars, exhausted, lastSent, startupSessions, resumed, crashes>>

\* poll's select, case evt := <-chEvt with evt == nil (the stream ended).
PollRecvNil ==
    /\ mainPc = "select"
    /\ streamPos = logLen
    /\ PollReturn(NilErr)
    /\ UNCHANGED <<persisted, cfgStartTime, logLen, streamPos, subs, dispVars,
                   semaphore, tasks, sinkVars, exhausted, lastSent, startupSessions, resumed, crashes>>

\* poll's select, case err := <-chErr.
PollRecvErr ==
    /\ mainPc = "select"
    /\ \E err \in {ConnErr, EOFErr, OtherErr} : PollReturn(err)
    /\ UNCHANGED <<persisted, cfgStartTime, logLen, streamPos, subs, dispVars,
                   semaphore, tasks, sinkVars, exhausted, lastSent, startupSessions, resumed, crashes>>

\* poll's select, case <-ctx.Done().
PollCtxDone ==
    /\ mainPc = "select"
    /\ terminated
    /\ PollReturn(Canceled)
    /\ UNCHANGED <<persisted, cfgStartTime, logLen, streamPos, subs, dispVars,
                   semaphore, tasks, sinkVars, exhausted, lastSent, startupSessions, resumed, crashes>>

\* sendEvent: the errors fluentd.Send can give (none in a dry run).
SendErrors == IF DryRun THEN {} ELSE {ConnErr, OtherErr} \cup (IF terminated THEN {Canceled} ELSE {})

\* sendEvent: whether Fluentd receives the event when sendEvent returns nil.
Delivers == ~DryRun

\* sendEvent: whether it can return nil: fluentd.Send called with a context
\* that is already cancelled fails; a send begun before the shutdown signal
\* completes or fails.
SendCanSucceed == DryRun \/ ~terminated

\* poll: sendEvent returned nil for the main event.
PollSendOK ==
    /\ mainPc = "send"
    /\ SendCanSucceed
    /\ sinkMain' = (IF Delivers THEN sinkMain \cup {mainEvt} ELSE sinkMain)
    /\ lastSent' = mainEvt
    /\ mainPc' = "persist"
    /\ UNCHANGED <<persisted, cfgStartTime, logLen, terminated, mainEvt, mainErr, streamPos, subs,
                   dispVars, semaphore, tasks, sinkSess, skippedSess, exhausted,
                   startupSessions, resumed, crashes>>

\* Mutant of PollSendFail: SetID and SetCursor are called before the error
\* of sendEvent is looked at.
PollSendFailSaved ==
    /\ mainPc = "send"
    /\ \E err \in SendErrors : PollReturn(err)
    /\ stID' = EventID(mainEvt)
    /\ stCursor' = EventCursor(mainEvt)
    /\ UNCHANGED <<stStartTime, stSessions, cfgStartTime, logLen, streamPos, subs, dispVars,
                   semaphore, tasks, sinkVars, exhausted, lastSent, startupSessions, resumed, crashes>>

\* poll: sendEvent returned an error; poll returns it.
PollSendFail ==
    /\ mainPc = "send"
    /\ \E err \in SendErrors : PollReturn(err)
    /\ UNCHANGED <<persisted, cfgStartTime, logLen, streamPos, subs, dispVars,
                   semaphore, tasks, sinkVars, exhausted, lastSent, startupSessions, resumed, crashes>>

\* Mutant of SessionPollSpawn: the test of evt.IsSessionEnd is left out.
SessionPollSpawnAlways(p) ==
    {[sid |-> EventSessionID(p), idx |-> 0, from |-> p, pc |-> "start"]}

\* poll: the goroutine spawned for a session end event, about to run
\* startSessionPoll; none for another event.
SessionPollSpawn(p) ==
    IF IsSessionEnd(p)
    THEN {[sid |-> EventSessionID(p), idx |-> 0, from |-> p, pc |-> "start"]}
    ELSE {}

\* Mutant of PollPersist: SetCursor is left out.
PollPersistNoCursor ==
    /\ mainPc = "persist"
    /\ stID' = EventID(mainEvt)
    /\ subs' = subs \cup SessionPollSpawn(mainEvt)
    /\ mainPc' = "select"
    /\ mainEvt' = 0
    /\ UNCHANGED <<stCursor, stStartTime, stSessions, cfgStartTime, logLen, terminated, mainErr,
                   streamPos, dispVars, semaphore, tasks, sinkVars, exhausted, lastSent,
                   startupSessions, resumed, crashes>>

\* Mutant of PollPersist: poll runs startSessionPoll itself and waits until
\* the dispatch loop receives the session.
PollPersistInline ==
    /\ mainPc = "persist"
    /\ IsSessionEnd(mainEvt) => dispPc = "select"
    /\ stID' = EventID(mainEvt)
    /\ stCursor' = EventCursor(mainEvt)
    /\ IF IsSessionEnd(mainEvt)
       THEN /\ stSessions' = SetSessionIndex(stSessions, EventSessionID(mainEvt), 0)
            /\ dispS' = [sid |-> EventSessionID(mainEvt), idx |-> 0, from |-> mainEvt]
            /\ dispPc' = "take"
       ELSE UNCHANGED <<stSessions, dispS, dispPc>>
    /\ mainPc' = "select"
    /\ mainEvt' = 0
    /\ UNCHANGED <<stStartTime, cfgStartTime, logLen, terminated, mainErr, streamPos, subs,
                   dispErr, semaphore, tasks, sinkVars, exhausted, lastSent,
                   startupSessions, resumed, crashes>>

\* poll, after the send: SetID, SetCursor, and the spawn on a session end.
PollPersist ==
    /\ mainPc = "persist"
    /\ stID' = EventID(mainEvt)
    /\ stCursor' = EventCursor(mainEvt)
    /\ subs' = subs \cup SessionPollSpawn(mainEvt)
    /\ mainPc' = "select"
    /\ mainEvt' = 0
    /\ UNCHANGED <<stStartTime, stSessions, cfgStartTime, logLen, terminated, mainErr, streamPos,
                   dispVars, semaphore, tasks, sinkVars, exhausted, lastSent,
                   startupSessions, resumed, crashes>>

MainNext ==
    \/ RunInit
    \/ PollOpen
    \/ PollRecvEvent
    \/ PollRecvNil
    \/ PollRecvErr
    \/ PollCtxDone
    \/ PollSendOK
    \/ PollSendFail
    \/ PollPersist

(* ------------------- submissions to a.sessions ------------------------- *)

\* startSessionPoll, up to its select: SetSessionIndex(e.SessionID, 0).
StartSessionPoll ==
    /\ \E sub \in subs :
        /\ sub.pc = "start"
        /\ stSessions' = SetSessionIndex(stSessions, sub.sid, 0)
        /\ subs' = (subs \ {sub}) \cup {[sub EXCEPT !.pc = "send"]}
    /\ UNCHANGED <<stID, stCursor, stStartTime, cfgStartTime, logLen, terminated, mainVars,
                   dispVars, semaphore, tasks, sinkVars, exhausted, lastSent,
                   startupSessions, resumed, crashes>>

\* The error a goroutine blocked on a.sessions <- s returns on ctx.Done():
\* restartPausedSessions swallows the cancellation, startSessionPoll returns it.
SubmitCanceledErr(sub) == IF sub.from = 0 THEN NilErr ELSE Canceled

\* Mutant of SubmitCtxDone: only the goroutines of restartPausedSessions see
\* the shutdown signal, startSessionPoll sends on a.sessions without a way out.
SubmitCtxDoneRestartOnly ==
    /\ terminated
    /\ \E sub \in subs :
        /\ sub.pc = "send"
        /\ sub.from = 0
        /\ subs' = subs \ {sub}
        /\ terminated' = CriticalExit(SubmitCanceledErr(sub))
    /\ UNCHANGED <<persisted, cfgStartTime, logLen, mainVars, dispVars, semaphore, tasks,
                   sinkVars, exhausted, lastSent, startupSessions, resumed, crashes>>

\* select of a submitting goroutine, case <-ctx.Done().
SubmitCtxDone ==
    /\ terminated
    /\ \E sub \in subs :
        /\ sub.pc = "send"
        /\ subs' = subs \ {sub}
        /\ terminated' = CriticalExit(SubmitCanceledErr(sub))
    /\ UNCHANGED <<persisted, cfgStartTime, logLen, mainVars, dispVars, semaphore, tasks,
                   sinkVars, exhausted, lastSent, startupSessions, resumed, crashes>>

(* ----------------------- App.runSessionConsumer ------------------------ *)

\* The task runSessionConsumer spawns for session s; slot tells whether
\* takeSemaphore put a token into the channel for it.
NewTask(s, slot) ==
    [sid |-> s.sid, idx |-> s.idx, from |-> s.from, pc |-> "open",
     backoffCount |-> sessionBackoffNumTries, next |-> 0, evt |-> 0,
     ret |-> NilErr, slot |-> slot, how |-> "running",
     opens |-> 0, fails |-> 0, waits |-> 0, openIdx |-> 0]

\* runSessionConsumer's select, case s := <-a.sessions: the rendezvous with
\* one goroutine blocked on the send.
DispRecv ==
    /\ dispPc = "select"
    /\ \E sub \in subs :
        /\ sub.pc = "send"
        /\ subs' = subs \ {sub}
        /\ dispS' = [sid |-> sub.sid, idx |-> sub.idx, from |-> sub.from]
        /\ resumed' = (IF sub.from = 0 THEN [resumed EXCEPT ![sub.sid] = @ + 1] ELSE resumed)
    /\ dispPc' = "take"
    /\ UNCHANGED <<persisted, cfgStartTime, logLen, terminated, mainVars, dispErr, semaphore, tasks,
                   sinkVars, exhausted, lastSent, startupSessions, crashes>>

\* runSessionConsumer's select, case <-ctx.Done().
DispCtxDone ==
    /\ dispPc = "select"
    /\ terminated
    /\ dispPc' = "done"
    /\ dispErr' = NilErr
    /\ UNCHANGED <<persisted, cfgStartTime, logLen, terminated, mainVars, dispS, subs, semaphore,
                   tasks, sinkVars, exhausted, lastSent, startupSessions, resumed, crashes>>

\* takeSemaphore, case a.semaphore <- struct{}{}, then the spawn of the task.
DispTake ==
    /\ dispPc = "take"
    /\ semaphore < Concurrency
    /\ semaphore' = semaphore + 1
    /\ tasks' = tasks \cup {NewTask(dispS, TRUE)}
    /\ dispPc' = "select"
    /\ dispS' = <<>>
    /\ UNCHANGED <<persisted, cfgStartTime, logLen, terminated, mainVars, dispErr, subs,
                   sinkVars, exhausted, lastSent, startupSessions, resumed, crashes>>

\* takeSemaphore, case <-ctx.Done(): its error is dropped and the task is
\* spawned all the same.
DispTakeCanceled ==
    /\ dispPc = "take"
    /\ terminated
    /\ tasks' = tasks \cup {NewTask(dispS, FALSE)}
    /\ dispPc' = "select"
    /\ dispS' = <<>>
    /\ UNCHANGED <<persisted, cfgStartTime, logLen, terminated, mainVars, dispErr, subs, semaphore,
                   sinkVars, exhausted, lastSent, startupSessions, resumed, crashes>>

DispatchNext ==
    \/ StartSessionPoll
    \/ SubmitCtxDone
    \/ DispRecv
    \/ DispCtxDone
    \/ DispTake
    \/ DispTakeCanceled

(* ----------------------- the session replay task ----------------------- *)

Replace(t, u) == (tasks \ {t}) \cup {u}

\* The saved index of a session, -1 when the sessions map has none.
SavedIndex(id) == IF id \in DOMAIN stSessions THEN stSessions[id] ELSE -1

\* consumeSession: the index StreamSessionEvents is called with.
StreamStart(t) == t.idx

\* The task's loop calls consumeSession, which opens the sub-stream.
TaskOpen ==
    /\ \E t \in tasks :
        /\ t.pc = "open"
        /\ tasks' = Replace(t, [t EXCEPT !.pc = "select", !.next = StreamStart(t),
                                         !.opens = @ + 1, !.openIdx = StreamStart(t)])
    /\ UNCHANGED <<persisted, cfgStartTime, logLen, terminated, mainVars, subs, dispVars, semaphore,
                   sinkVars, exhausted, lastSent, startupSessions, resumed, crashes>>

\* consumeSession returned (true, err): the task goes to its backoff.
Retry(t) == [t EXCEPT !.pc = "backoff", !.fails = @ + 1, !.evt = 0]

\* Mutant of Return: the task logs the error and returns nil.
ReturnErrDropped(t, err, how) ==
    [t EXCEPT !.pc = "release", !.ret = NilErr, !.how = how, !.evt = 0]

\* consumeSession returned (false, err), err nil or not: the task returns err
\* and its deferred releaseSemaphore runs.
Return(t, err, how) == [t EXCEPT !.pc = "release", !.ret = err, !.how = how, !.evt = 0]

\* consumeSession's select, case err := <-chErr.
TaskRecvErr ==
    /\ \E t \in tasks :
        /\ t.pc = "select"
        /\ tasks' = Replace(t, Retry(t))
    /\ UNCHANGED <<persisted, cfgStartTime, logLen, terminated, mainVars, subs, dispVars, semaphore,
                   sinkVars, exhausted, lastSent, startupSessions, resumed, crashes>>

\* consumeSession's select, case evt := <-chEvt with evt == nil: the session
\* is removed from the state and the task ends.
TaskRecvNil ==
    /\ \E t \in tasks :
        /\ t.pc = "select"
        /\ t.next >= SessLen
        /\ stSessions' = RemoveSession(stSessions, t.sid)
        /\ exhausted' = exhausted \cup {t.sid}
        /\ tasks' = Replace(t, Return(t, NilErr, "finished"))
    /\ UNCHANGED <<stID, stCursor, stStartTime, cfgStartTime, logLen, terminated, mainVars, subs,
                   dispVars, semaphore, sinkVars, lastSent, startupSessions, resumed, crashes>>

\* Mutant of TaskCtxDone: the cancellation leaves the loop by break, so that
\* RemoveSession runs.
TaskCtxDoneRemoves ==
    /\ terminated
    /\ \E t \in tasks :
        /\ t.pc = "select"
        /\ stSessions' = RemoveSession(stSessions, t.sid)
        /\ tasks' = Replace(t, Return(t, NilErr, "canceled"))
    /\ UNCHANGED <<stID, stCursor, stStartTime, cfgStartTime, logLen, terminated, mainVars,
                   subs, dispVars, semaphore, sinkVars, exhausted, lastSent, startupSessions,
                   resumed, crashes>>

\* consumeSession's select, case <-ctx.Done().
TaskCtxDone ==
    /\ terminated
    /\ \E t \in tasks :
        /\ t.pc = "select"
        /\ tasks' = Replace(t, Return(t, NilErr, "canceled"))
    /\ UNCHANGED <<persisted, cfgStartTime, logLen, terminated, mainVars, subs, dispVars, semaphore,
                   sinkVars, exhausted, lastSent, startupSessions, resumed, crashes>>

\* consumeSession, an event arrived: NewTeleportEvent fails.
TaskNewEventErr ==
    /\ \E t \in tasks :
        /\ t.pc = "select"
        /\ t.next < SessLen
        /\ tasks' = Replace(t, Return([t EXCEPT !.next = @ + 1], OtherErr, "failed"))
    /\ UNCHANGED <<persisted, cfgStartTime, logLen, terminated, mainVars, subs, dispVars, semaphore,
                   sinkVars, exhausted, lastSent, startupSessions, resumed, crashes>>

\* Mutant of TaskSkipEvent: the event of a skipped type is sent to Fluentd
\* all the same.
TaskSkipEventSent ==
    /\ \E t \in tasks :
        /\ t.pc = "select"
        /\ t.next < SessLen
        /\ EventType(t.next) \in SkipSessionTypes
        /\ skippedSess' = skippedSess \cup {<<t.sid, t.next>>}
        /\ sinkSess' = sinkSess \cup {<<t.sid, t.next>>}
        /\ tasks' = Replace(t, [t EXCEPT !.pc = "persist", !.evt = EventIndex(t.next),
                                         !.next = @ + 1])
    /\ UNCHANGED <<persisted, cfgStartTime, logLen, terminated, mainVars, subs, dispVars, semaphore,
                   sinkMain, exhausted, lastSent, startupSessions, resumed, crashes>>

\* consumeSession, an event of a type in SkipSessionTypes arrived: no send.
TaskSkipEvent ==
    /\ \E t \in tasks :
        /\ t.pc = "select"
        /\ t.next < SessLen
        /\ EventType(t.next) \in SkipSessionTypes
        /\ skippedSess' = skippedSess \cup {<<t.sid, t.next>>}
        /\ tasks' = Replace(t, [t EXCEPT !.pc = "persist", !.evt = EventIndex(t.next),
                                         !.next = @ + 1])
    /\ UNCHANGED <<persisted, cfgStartTime, logLen, terminated, mainVars, subs, dispVars, semaphore,
                   sinkMain, sinkSess, exhausted, lastSent, startupSessions, resumed, crashes>>

\* consumeSession, an event arrived and sendEvent returned nil.
TaskSendOK ==
    /\ SendCanSucceed
    /\ \E t \in tasks :
        /\ t.pc = "select"
        /\ t.next < SessLen
        /\ EventType(t.next) \notin SkipSessionTypes
        /\ sinkSess' = (IF Delivers THEN sinkSess \cup {<<t.sid, t.next>>} ELSE sinkSess)
        /\ tasks' = Replace(t, [t EXCEPT !.pc = "persist", !.evt = EventIndex(t.next),
                                         !.next = @ + 1])
    /\ UNCHANGED <<persisted, cfgStartTime, logLen, terminated, mainVars, subs, dispVars, semaphore,
                   sinkMain, skippedSess, exhausted, lastSent, startupSessions, resumed, crashes>>

\* Mutant of AfterSendError: a connection problem of the send falls through
\* to SetSessionIndex.
AfterSendErrorSaved(t, err) ==
    IF err = ConnErr
    THEN [t EXCEPT !.pc = "persist", !.evt = EventIndex(t.next - 1)]
    ELSE Return(t, err, "failed")

\* consumeSession: what becomes of the task when sendEvent returns err: a
\* connection problem is retried, any other error ends the task.
AfterSendError(t, err) ==
    IF err = ConnErr THEN Retry(t) ELSE Return(t, err, "failed")

\* consumeSession, an event arrived and sendEvent returned an error.
TaskSendFail ==
    /\ \E t \in tasks :
        /\ t.pc = "select"
        /\ t.next < SessLen
        /\ EventType(t.next) \notin SkipSessionTypes
        /\ \E err \in SendErrors :
            tasks' = Replace(t, AfterSendError([t EXCEPT !.next = @ + 1], err))
    /\ UNCHANGED <<persisted, cfgStartTime, logLen, terminated, mainVars, subs, dispVars, semaphore,
                   sinkVars, exhausted, lastSent, startupSessions, resumed, crashes>>

\* consumeSession, after the send or the skip: SetSessionIndex(s.ID, e.Index).
TaskPersist ==
    /\ \E t \in tasks :
        /\ t.pc = "persist"
        /\ stSessions' = SetSessionIndex(stSessions, t.sid, t.evt)
        /\ tasks' = Replace(t, [t EXCEPT !.pc = "select", !.evt = 0])
    /\ UNCHANGED <<stID, stCursor, stStartTime, cfgStartTime, logLen, terminated, mainVars, subs,
                   dispVars, semaphore, sinkVars, exhausted, lastSent, startupSessions,
                   resumed, crashes>>

\* Mutant of BackoffExhausted: the task gives up when the count reaches 0.
BackoffExhaustedAtZero(n) == n <= 0

\* The task's test after backoffCount--: whether no tries are left.
BackoffExhausted(n) == n < 0

\* Mutant of ExhaustedErr: the task returns the error when it gives up.
ExhaustedErrReturned == OtherErr

\* The error the task returns when its tries are exhausted.
ExhaustedErr == NilErr

\* backoff.Do returned nil: backoffCount--, then the task gives up or calls
\* consumeSession again.
AfterBackoff(t) ==
    LET u == [t EXCEPT !.waits = @ + 1, !.backoffCount = @ - 1]
    IN  IF BackoffExhausted(u.backoffCount)
        THEN Return(u, ExhaustedErr, "exhausted")
        ELSE [u EXCEPT !.pc = "open"]

\* The task's backoff.Do(ctx) ran its delay: the shutdown signal did not
\* fire before the delay was over.
TaskBackoff ==
    /\ ~terminated
    /\ \E t \in tasks :
        /\ t.pc = "backoff"
        /\ tasks' = Replace(t, AfterBackoff(t))
    /\ UNCHANGED <<persisted, cfgStartTime, logLen, terminated, mainVars, subs, dispVars, semaphore,
                   sinkVars, exhausted, lastSent, startupSessions, resumed, crashes>>

\* The task's backoff.Do(ctx) was cancelled: the task returns the error.
TaskBackoffCanceled ==
    /\ terminated
    /\ \E t \in tasks :
        /\ t.pc = "backoff"
        /\ tasks' = Replace(t, Return(t, Canceled, "canceled"))
    /\ UNCHANGED <<persisted, cfgStartTime, logLen, terminated, mainVars, subs, dispVars, semaphore,
                   sinkVars, exhausted, lastSent, startupSessions, resumed, crashes>>

\* Mutant of TaskRelease: the task ends without taking its token out of the
\* semaphore.
TaskReleaseKeepsToken ==
    /\ semaphore > 0
    /\ \E t \in tasks :
        /\ t.pc = "release"
        /\ tasks' = tasks \ {t}
        /\ terminated' = CriticalExit(t.ret)
    /\ UNCHANGED <<persisted, cfgStartTime, logLen, mainVars, subs, dispVars, semaphore,
                   sinkVars, exhausted, lastSent, startupSessions, resumed, crashes>>

\* The task's deferred releaseSemaphore, case <-a.semaphore; the task is over
\* and SpawnCritical sees its error.
TaskRelease ==
    /\ semaphore > 0
    /\ \E t \in tasks :
        /\ t.pc = "release"
        /\ semaphore' = semaphore - 1
        /\ tasks' = tasks \ {t}
        /\ terminated' = CriticalExit(t.ret)
    /\ UNCHANGED <<persisted, cfgStartTime, logLen, mainVars, subs, dispVars,
                   sinkVars, exhausted, lastSent, startupSessions, resumed, crashes>>

\* The task's deferred releaseSemaphore, case <-ctx.Done(): no token is taken.
TaskReleaseCanceled ==
    /\ terminated
    /\ \E t \in tasks :
        /\ t.pc = "release"
        /\ tasks' = tasks \ {t}
        /\ terminated' = CriticalExit(t.ret)
    /\ UNCHANGED <<persisted, cfgStartTime, logLen, mainVars, subs, dispVars, semaphore,
                   sinkVars, exhausted, lastSent, startupSessions, resumed, crashes>>

TaskNext ==
    \/ TaskOpen
    \/ TaskRecvErr
    \/ TaskRecvNil
    \/ TaskCtxDone
    \/ TaskNewEventErr
    \/ TaskSkipEvent
    \/ TaskSendOK
    \/ TaskSendFail
    \/ TaskPersist
    \/ TaskBackoff
    \/ TaskBackoffCanceled
    \/ TaskRelease
    \/ TaskReleaseCanceled

(* --------------------------- crash and restart ------------------------- *)

\* The process dies at any point and is started again with the same command
\* line: the state on disk and what Fluentd received remain.
Crash ==
    /\ crashes < MaxCrash
    /\ crashes' = crashes + 1
    /\ terminated' = FALSE
    /\ mainPc' = "init"
    /\ mainEvt' = 0
    /\ mainErr' = NilErr
    /\ streamPos' = 0
    /\ subs' = {}
    /\ dispPc' = "select"
    /\ dispS' = <<>>
    /\ dispErr' = NilErr
    /\ semaphore' = 0
    /\ tasks' = {}
    /\ lastSent' = 0
    /\ startupSessions' = <<>>
    /\ resumed' = [s \in SessionIDs |-> 0]
    /\ UNCHANGED <<persisted, cfgStartTime, logLen, sinkVars, exhausted>>

(* ---------------------------- specifications --------------------------- *)

Next ==
    \/ MainNext
    \/ DispatchNext
    \/ TaskNext
    \/ Shutdown

Spec == Init /\ [][Next]_vars

NextCrash ==
    \/ Next
    \/ Crash

SpecCrash == InitFresh /\ [][NextCrash]_vars

SpecBusy == InitBusy /\ [][Next]_vars

\* Scheduling: a goroutine that can take a step is not held back forever, and
\* poll's select, which picks at random among its ready cases, does not pass
\* over a ready ctx.Done() forever.
Fairness ==
    /\ WF_vars(Next)
    /\ SF_vars(PollCtxDone)

SpecLive == InitLive /\ [][Next]_vars /\ Fairness

\* Scheduling by goroutine: run with its poll, the dispatch loop with the
\* goroutines that submit sessions, and the replay tasks are each not held
\* back forever while they can take a step.
FairnessByGoroutine ==
    /\ WF_vars(MainNext)
    /\ WF_vars(DispatchNext)
    /\ WF_vars(TaskNext)

SpecSched == InitLive /\ [][Next]_vars /\ FairnessByGoroutine

(* ------------------------------- claims -------------------------------- *)

\* C1: whenever poll is about to take the next main event, the saved id and
\* cursor are those of the last main event sendEvent succeeded for, and a
\* main event whose send failed leaves the saved id and cursor as they were.
C1_MainProgressSequential ==
    /\ [](mainPc = "select" /\ lastSent # 0
            => stID = EventID(lastSent) /\ stCursor = EventCursor(lastSent))
    /\ [][mainPc = "send" /\ mainPc' # "persist" => UNCHANGED <<stID, stCursor>>]_vars

\* C1 witness: poll sent and saved two main events and is back at its select.
C1_Witness == mainPc = "select" /\ lastSent = 2 /\ stID = EventID(2) /\ stCursor = EventCursor(2)

\* C2 (as claimed): no SetSessionIndex of a replay task stores an index lower
\* than the one saved for the session before it.
C2_SessionIndexMonotone ==
    [][(\E t \in tasks : t.pc = "persist" /\ t \notin tasks')
        => \A s \in DOMAIN stSessions \cap DOMAIN stSessions' :
              stSessions'[s] >= stSessions[s]]_vars

\* C3 (as claimed): an attempt that follows a retriable failure opens the
\* sub-stream at the index saved for the session at that moment.
C3_RetryOpensAtSavedIndex ==
    [][\A t \in tasks :
          t.pc = "open" /\ t.fails > 0 /\ t \notin tasks'
          => \E u \in tasks' \ tasks :
                u.sid = t.sid /\ u.from = t.from /\ u.next = SavedIndex(t.sid)]_vars

\* C4: the event whose index is saved for a session (the initial entry 0
\* apart) was delivered to Fluentd or skipped, and a session event whose send
\* failed leaves the saved indexes as they were.
C4_IndexSavedAfterDelivery ==
    /\ [](\A s \in DOMAIN stSessions :
            stSessions[s] > 0 => <<s, stSessions[s]>> \in sinkSess \cup skippedSess)
    /\ [][(\E t \in tasks : t.pc = "select" /\ t \notin tasks'
              /\ \E u \in tasks' \ tasks :
                    u.sid = t.sid /\ u.next = t.next + 1 /\ u.pc \in {"backoff", "release"})
          => UNCHANGED stSessions]_vars

\* C4 witness: a task sent event 1 of its session in this run and saved index 1.
C4_Witness ==
    \E t \in tasks :
        /\ t.pc = "select" /\ t.next = 2 /\ t.idx = 0
        /\ SavedIndex(t.sid) = 1
        /\ <<t.sid, 1>> \in sinkSess

\* C5: every session of the sessions map read at startup is handed to the
\* dispatch loop once, with the index saved for it, and its replay opens the
\* sub-stream at that index.
C5_RestartAtSavedIndex ==
    /\ \A sub \in subs :
          sub.from = 0 => sub.sid \in DOMAIN startupSessions /\ sub.idx = startupSessions[sub.sid]
    /\ dispPc = "take" /\ dispS.from = 0
          => dispS.sid \in DOMAIN startupSessions /\ dispS.idx = startupSessions[dispS.sid]
    /\ \A t \in tasks :
          t.from = 0 =>
             /\ t.sid \in DOMAIN startupSessions
             /\ t.idx = startupSessions[t.sid]
             /\ t.opens > 0 => t.openIdx = startupSessions[t.sid]
    /\ \A s \in SessionIDs :
          LET waiting == Cardinality({sub \in subs : sub.from = 0 /\ sub.sid = s})
          IN  /\ waiting + resumed[s] <= 1
              /\ s \notin DOMAIN startupSessions => waiting + resumed[s] = 0
              /\ s \in DOMAIN startupSessions /\ ~terminated => waiting + resumed[s] = 1

\* C5 witness: a session saved at index 1 was restarted and its replay opened
\* the sub-stream at index 1.
C5_Witness ==
    \E t \in tasks :
        /\ t.from = 0 /\ t.opens = 1 /\ t.openIdx = 1 /\ t.pc = "select"
        /\ startupSessions[t.sid] = 1 /\ resumed[t.sid] = 1

\* C6 (as claimed): every session whose session end event the saved cursor
\* covers has an entry in the sessions map or was replayed to its end; a
\* session whose startSessionPoll goroutine is still to run is not held
\* against the claim.
C6_NoSessionLost ==
    \A p \in 1..stCursor :
        IsSessionEnd(p) =>
            \/ EventSessionID(p) \in DOMAIN stSessions
            \/ EventSessionID(p) \in exhausted
            \/ \E sub \in subs : sub.sid = EventSessionID(p) /\ sub.pc = "start"

\* C7: with a saved start time and a different explicit one, run fails before
\* any ingestion: poll never starts, no session is resubmitted or replayed,
\* and the saved start time and progress and what Fluentd received stay.
C7_StartTimeConflict ==
    /\ [](stStartTime # NoTime /\ cfgStartTime # NoTime /\ stStartTime # cfgStartTime
            => /\ mainPc \in {"init", "done"}
               /\ mainPc = "done" => mainErr = ConflictErr /\ terminated
               /\ lastSent = 0
               /\ subs = {} /\ tasks = {} /\ dispPc # "take")
    /\ [][stStartTime # NoTime /\ cfgStartTime # NoTime /\ stStartTime # cfgStartTime
            => UNCHANGED <<persisted, sinkVars>>]_vars

\* C7 witness: run returned the conflict error with a paused session saved.
C7_Witness ==
    /\ stStartTime = T1 /\ cfgStartTime = T2
    /\ mainPc = "done" /\ mainErr = ConflictErr
    /\ DOMAIN stSessions # {}

\* C8 (as claimed): at most Concurrency replay tasks run at a time, also
\* after the shutdown signal. (The claim adds that each of them holds a slot;
\* the bound alone is stated here.)
C8_ConcurrencyBound == Cardinality(tasks) <= Concurrency

\* C9 (as claimed): after its 5th failure and 5th backoff wait the task is
\* over with no error, and it does not open the sub-stream again.
C9_FiveFailuresEndTask ==
    \A t \in tasks :
        t.fails = sessionBackoffNumTries
            => \/ t.pc = "backoff" /\ t.waits = sessionBackoffNumTries - 1
               \/ t.pc = "release" /\ t.waits = sessionBackoffNumTries

\* C9 (amended): the task gives up only after one more failure than
\* sessionBackoffNumTries: it then opened the sub-stream 6 times, failed 6
\* times, waited 6 times, and returns nil; after each of the first 5 failures
\* and waits it opens the sub-stream again.
C9_SixFailuresEndTask ==
    \A t \in tasks :
        /\ t.how = "exhausted"
              => /\ t.pc = "release" /\ t.ret = NilErr
                 /\ t.opens = sessionBackoffNumTries + 1
                 /\ t.fails = sessionBackoffNumTries + 1
                 /\ t.waits = sessionBackoffNumTries + 1
        /\ t.pc = "open" /\ t.fails > 0
              => t.waits = t.fails /\ t.opens = t.fails /\ t.fails <= sessionBackoffNumTries
        /\ t.pc = "open" => t.how = "running"

\* C9 witness: a task gave up after its 6th failure.
C9_Witness ==
    \E t \in tasks : t.how = "exhausted" /\ t.fails = 6 /\ t.waits = 6 /\ t.pc = "release"

\* C10: a task makes a bounded number of attempts, gives up with no error,
\* and the end of a task that gave up stops neither poll nor the dispatch
\* loop nor another task nor a waiting submission.
C10_RetryBoundedNotFatal ==
    /\ [](\A t \in tasks :
            /\ t.opens <= sessionBackoffNumTries + 1
            /\ t.how = "exhausted" => t.ret = NilErr)
    /\ [][\A t \in tasks :
            t.how = "exhausted" /\ t \notin tasks'
            => /\ tasks' = tasks \ {t}
               /\ UNCHANGED <<terminated, mainVars, dispVars, subs>>]_vars

\* C10 witness: a task that gave up is about to end while poll, the dispatch
\* loop and another session's submission are alive.
C10_Witness ==
    /\ ~terminated /\ mainPc = "select" /\ dispPc = "take"
    /\ \E t \in tasks : t.how = "exhausted" /\ t.pc = "release" /\ t.opens = 6

\* C11: no session event of a type in SkipSessionTypes is ever delivered to
\* Fluentd; the event a task is about to save the index of was skipped when
\* its type is in SkipSessionTypes and was delivered when it is not; and the
\* step that follows saves that index for the session.
C11_SkipPolicy ==
    /\ [](\A e \in sinkSess : EventType(e[2]) \notin SkipSessionTypes)
    /\ [](\A t \in tasks :
            t.pc = "persist" =>
               IF EventType(t.evt) \in SkipSessionTypes
               THEN <<t.sid, t.evt>> \in skippedSess /\ <<t.sid, t.evt>> \notin sinkSess
               ELSE <<t.sid, t.evt>> \in sinkSess)
    /\ [][\A t \in tasks :
            t.pc = "persist" /\ t \notin tasks'
            => t.sid \in DOMAIN stSessions' /\ stSessions'[t.sid] = t.evt]_vars

\* C11 witness: a task sent event 1 and saved index 1, read its sub-stream
\* again from index 0, skipped event 0 and saved index 0: the index of the
\* skipped event is the saved one and Fluentd never received that event.
C11_Witness ==
    \E t \in tasks :
        /\ t.pc = "select" /\ t.idx = 0 /\ t.next = 1 /\ t.fails = 1
        /\ EventType(0) \in SkipSessionTypes
        /\ <<t.sid, 0>> \in skippedSess /\ <<t.sid, 0>> \notin sinkSess
        /\ <<t.sid, 1>> \in sinkSess
        /\ SavedIndex(t.sid) = 0

\* Every slot is taken and the dispatch loop waits in takeSemaphore.
Saturated == ~terminated /\ dispPc = "take" /\ semaphore = Concurrency

\* C12: while the pool is saturated every step of poll (open, receive, send,
\* save and spawn, also for a session end event) can be taken; a submission
\* that ends without being received changes nothing of run and poll; and the
\* error run ends with changes only at a step of init, of the stream read or
\* of the send, in which no submission takes part.
C12_PollNotBlocked ==
    /\ [](Saturated =>
            /\ mainPc = "poll" => ENABLED PollOpen
            /\ mainPc = "select" /\ streamPos < logLen => ENABLED PollRecvEvent
            /\ mainPc = "send" => ENABLED PollSendOK
            /\ mainPc = "persist" => ENABLED PollPersist)
    /\ [][(\E sub \in subs : sub.pc = "send" /\ sub \notin subs') /\ dispPc' = dispPc
            => UNCHANGED mainVars]_vars
    /\ [][mainErr' # mainErr
            => mainPc \in {"init", "select", "send"} /\ UNCHANGED subs]_vars

\* C12 witness: the pool is saturated, poll sent and saved the last main
\* event, a session end event, in this run and is back at its select with no
\* error, and the submission of that session waits to be received.
C12_Witness ==
    /\ Saturated
    /\ mainPc = "select" /\ mainErr = NilErr
    /\ IsSessionEnd(MaxMainBusy)
    /\ lastSent = MaxMainBusy /\ stCursor = EventCursor(MaxMainBusy)
    /\ \E sub \in subs : sub.from = MaxMainBusy /\ sub.pc = "send"

\* C13: when poll returns a connection problem or EOF, run calls poll again,
\* the process is not terminated by it and run has no error; when poll returns
\* a cancellation, run terminates the process and returns nil; when poll
\* returns another error, run terminates the process and returns that error.
\* Once run is over the process is terminated.
C13_PollErrorClasses ==
    /\ [](mainPc = "done" => terminated)
    /\ [](mainErr # NilErr => mainPc = "done")
    /\ [][\A err \in {ConnErr, EOFErr, Canceled, OtherErr} :
            mainPc \in {"select", "send"} /\ PollReturn(err)
            => IF err \in {ConnErr, EOFErr}
               THEN mainPc' = "poll" /\ terminated' = terminated /\ mainErr' = NilErr
               ELSE IF err = Canceled
               THEN mainPc' = "done" /\ terminated' /\ mainErr' = NilErr
               ELSE mainPc' = "done" /\ terminated' /\ mainErr' = err]_vars

\* C13 witness: poll sent a main event in this run and returned a connection
\* problem or EOF: run is about to call poll again, the process goes on.
C13_Witness ==
    /\ mainPc = "poll" /\ lastSent # 0
    /\ ~terminated /\ mainErr = NilErr

C15_TaskFailureIsolated ==
    [][\A t \in tasks :
          t.pc = "release" /\ t.ret = OtherErr /\ t \notin tasks' /\ ~terminated
          => ~terminated']_vars

\* C15 (amended): a replay task that failed with an error that is neither
\* retriable nor a cancellation returns that error, and SpawnCritical then
\* fires the shutdown signal; the step itself touches neither poll nor
\* another task nor a submission. A task that returns nil (sub-stream replayed
\* to its end, tries exhausted, cancelled in its select) fires no signal.
C15_TaskFailureFatal ==
    /\ [](\A t \in tasks : t.how = "failed" => t.pc = "release" /\ t.ret \in {OtherErr, Canceled})
    /\ [][\A t \in tasks :
            t.pc = "release" /\ t \notin tasks'
            => /\ tasks' = tasks \ {t}
               /\ UNCHANGED <<mainVars, dispVars, subs>>
               /\ t.ret # NilErr => terminated'
               /\ t.ret = NilErr => terminated' = terminated]_vars

\* C15 witness: while poll and the dispatch loop run and no shutdown signal
\* has fired, a replay task is about to return an error that is neither
\* retriable nor a cancellation.
C15_Witness ==
    /\ ~terminated /\ mainPc = "select" /\ dispPc = "take"
    /\ \E t \in tasks : t.pc = "release" /\ t.how = "failed" /\ t.ret = OtherErr

\* C16 (as claimed): when a replay task that holds a slot ends, by whatever
\* exit, its deferred releaseSemaphore takes a token out of the semaphore, so
\* that the tokens in the semaphore are as many as the running replay tasks.
C16_SlotReleasedOnExit ==
    [][\A t \in tasks :
          t.pc = "release" /\ t.slot /\ t \notin tasks'
          => semaphore' = semaphore - 1 /\ semaphore' = Cardinality(tasks')]_vars

\* C17: an entry leaves the sessions map only in the step in which the
\* replay task of that session reads the end of its sub-stream, and that task
\* then returns nil; a task that ends in any other way (cancelled, tries
\* exhausted, failed) leaves the entry of its session in the map.
C17_RemovedOnlyAtStreamEnd ==
    /\ [](\A t \in tasks :
            t.pc = "release" =>
               IF t.how = "finished"
               THEN t.ret = NilErr /\ t.sid \notin DOMAIN stSessions /\ t.sid \in exhausted
               ELSE t.sid \in DOMAIN stSessions)
    /\ [][\A s \in DOMAIN stSessions :
            s \notin DOMAIN stSessions'
            => \E t \in tasks :
                  /\ t.sid = s /\ t.pc = "select" /\ t.next >= SessLen
                  /\ tasks' = Replace(t, Return(t, NilErr, "finished"))]_vars

\* C17 witness: a task gave up after its tries were exhausted and the entry
\* of its session, saved at startup, is still in the sessions map.
C17_Witness ==
    \E t \in tasks :
        /\ t.pc = "release" /\ t.how = "exhausted"
        /\ t.sid \in DOMAIN startupSessions /\ t.sid \in DOMAIN stSessions

\* The submissions, the session the dispatch loop holds and the replay tasks
\* of session s, counted.
Owners(s) ==
    Cardinality({sub \in subs : sub.sid = s})
    + (IF dispPc = "take" /\ dispS.sid = s THEN 1 ELSE 0)
    + Cardinality({t \in tasks : t.sid = s})

C19_CancellationSilent ==
    \A t \in tasks : t.pc = "release" => t.ret # Canceled

\* run, the dispatch loop, every replay task and every submission are over.
Stopped == mainPc = "done" /\ dispPc = "done" /\ tasks = {} /\ subs = {}

Waiting(s) ==
    \/ \E sub \in subs : sub.sid = s /\ sub.pc = "send"
    \/ dispPc = "take" /\ dispS.sid = s

\* A replay task of session s holds a slot and has opened the sub-stream.
Started(s) == \E t \in tasks : t.sid = s /\ t.slot /\ t.opens > 0

\* C21: in a run in which the shutdown signal never fires, every session that
\* waits on a.sessions, submitted by startSessionPoll or by
\* restartPausedSessions, or that the dispatch loop holds, gets a replay task
\* that holds a slot and opens its sub-stream.
C21_NoSessionStarves ==
    \A s \in SessionIDs : ([]~terminated) => (Waiting(s) ~> Started(s))

\* C21 witness: with no shutdown signal, the restarted session was replayed
\* to its end and released the only slot, and the session submitted by a
\* session end event has a replay task that holds the slot and reads its
\* sub-stream.
C21_Witness ==
    /\ ~terminated
    /\ resumed[1] = 1 /\ 1 \in exhausted
    /\ \E t \in tasks : t.from # 0 /\ t.slot /\ t.opens = 1 /\ t.pc = "select"

====
